---- MODULE Spec2Model ----
(***************************************************************************)
(* Resume Link Scraper API (src/main.py).                                  *)
(*                                                                         *)
(* Spec      : the request handler scrape_resume_links and the orchestrator*)
(*             ScraperService.scrape_urls with its worker tasks, the       *)
(*             process-wide semaphore and the per-run HTTP client.         *)
(* FairSpec  : Spec with the fairness of the asyncio event loop: a task    *)
(*             that can run is run, and a fetch in flight returns.         *)
(* DiscoverySpec : one call of URLExtractor.extract_pdf_urls on a document *)
(*             given page by page, with normalize_url and the URL pattern  *)
(*             working on strings character by character.                  *)
(* NormalizeSpec : URLExtractor.normalize_url applied to raw strings put   *)
(*             together from pieces, to the same string with another       *)
(*             fragment, and to its own result.                            *)
(* WorkerSpec : one worker inside async with self.sem, step by step, with  *)
(*             the outcomes of the GET and of the extraction strategies    *)
(*             written down.                                               *)
(***************************************************************************)
EXTENDS Integers, Sequences, FiniteSets, TLC

VARIABLES
    cfg,    \* Config, read once at import: CONCURRENCY, HAS_READABILITY
    sem,    \* scraper_service.sem._value: free slots of the one semaphore
    run,    \* per request: position of the handler / scrape_urls, its data
    task,   \* per request: the worker coroutines handed to asyncio.gather
    x_pc,       \* extract_pdf_urls: where the call is
    max_urls,   \* extract_pdf_urls: its argument max_urls
    urls,       \* extract_pdf_urls: the set urls
    url_list,   \* extract_pdf_urls: the list it returns
    page,       \* extract_pdf_urls: pages of the document iterated so far
    reading,    \* extract_pdf_urls: the part of the page at hand was read
                \* (get_text / get_links returned), or raised
    part_n,     \* words or links of the part of the page at hand gone through
    occ,        \* the document read so far: per URL written in it, how often
                \* it occurred and whether discovery read an occurrence

    n_pc,       \* a call of normalize_url followed on its own: where it is
    n_raw,      \* normalize_url: the raw string
    n_other,    \* a raw string that differs from n_raw in its fragment only
    n_norm,     \* normalize_url(n_raw)
    n_norm_other, \* normalize_url(n_other)
    n_renorm,   \* normalize_url of the URL that normalize_url(n_raw) returned

    w_pc,       \* one worker followed on its own, inside async with self.sem:
                \* where it is
    w_url,      \* worker: its url
    w_resp,     \* what self.client.get(url) does for it
    w_primary,  \* what trafilatura.extract does on the markup
    w_secondary, \* what the readability strategy does on the markup
    w_err,      \* worker: err as returned by fetch_html
    w_tried,    \* extract_main_text: the strategies attempted, in order
    w_text,     \* worker: text as returned by extract_main_text
    w_res       \* what the worker returns, or the exception it ends with

service == <<cfg, sem, run, task>>
discovery == <<x_pc, max_urls, urls, url_list, page, reading, part_n, occ>>
normalizer == <<n_pc, n_raw, n_other, n_norm, n_norm_other, n_renorm>>
one_worker == <<w_pc, w_url, w_resp, w_primary, w_secondary, w_err, w_tried, w_text, w_res>>
vars == <<service, discovery, normalizer, one_worker>>

----------------------------------------------------------------------------
(* Bounds of the model *)

MaxTasks == 2         \* worker tasks over all requests in flight

(* Program constants *)

MAX_URLS == 2                 \* Config.MAX_URLS (environment; default 40)
MAX_SOURCE_URL_LEN == 2000    \* ScrapeItem.source_url max_length

(* The requests, and the values SCRAPER_MAX_CONCURRENCY is configured to *)
Runs == {1, 2}
ConcurrencyValues == {1, 2}

----------------------------------------------------------------------------
(* Values *)

None == <<>>
Some(x) == <<x>>
IsNone(o) == o = <<>>
Get(o) == o[1]

(* Candidate URLs handed to the orchestrator, with their lengths: u3 is    *)
(* one character longer than ScrapeItem.source_url allows.                 *)
URLS == {"u1", "u2", "u3"}
UrlLen(u) == CASE u = "u1" -> 18
               [] u = "u2" -> 2000
               [] u = "u3" -> 2001

RECURSIVE Sum(_, _)
Sum(f, S) == IF S = {} THEN 0
             ELSE LET x == CHOOSE y \in S : TRUE IN f[x] + Sum(f, S \ {x})

Range(s) == {s[i] : i \in 1..Len(s)}

Max(a, b) == IF a >= b THEN a ELSE b
Min(a, b) == IF a <= b THEN a ELSE b

----------------------------------------------------------------------------
(* Python list operations used by extract_pdf_urls *)

(* url_list[:k], with Python's meaning of a negative stop *)
SlicePrefix(s, k) ==
    LET stop == IF k < 0 THEN Max(Len(s) + k, 0) ELSE Min(k, Len(s))
    IN  SubSeq(s, 1, stop)

(* list(urls) followed by random.shuffle: any arrangement of the set *)
Shuffles(S) ==
    {s \in [1..Cardinality(S) -> S] : \A i, j \in 1..Cardinality(S) : s[i] = s[j] => i = j}

----------------------------------------------------------------------------
(* ScrapeItem: pydantic validates source_url (max_length) on construction  *)

NoItem == [source_url |-> "", status |-> "", scraped_text |-> None, error_message |-> None]

ScrapeItemValid(url) == UrlLen(url) <= MAX_SOURCE_URL_LEN

(* ScrapeItem(source_url=..., status=..., ...): the item, or the           *)
(* ValidationError the constructor raises                                  *)
ScrapeItem(url, status, text, err) ==
    IF ScrapeItemValid(url)
    THEN [exc |-> "", item |-> [source_url |-> url, status |-> status,
                                scraped_text |-> text, error_message |-> err]]
    ELSE [exc |-> "ValidationError", item |-> NoItem]

Msg(category, detail) == [category |-> category, detail |-> detail]

----------------------------------------------------------------------------
(* ContentScraper.fetch_html *)

(* content-type header values as received; a value is the sequence of its  *)
(* ';'-separated parts, <<>> when the header is missing                    *)
CTypes == { <<"text/html", "charset=utf-8">>, <<"Application/XHTML+XML">>,
            <<"application/json">>, <<>> }

LowerPart(p) == IF p = "Application/XHTML+XML" THEN "application/xhtml+xml" ELSE p
Lower(ctype) == [i \in 1..Len(ctype) |-> LowerPart(ctype[i])]
Contains(ctype, part) == \E i \in 1..Len(ctype) : ctype[i] = part

Statuses == {200, 404}
StatusStr(n) == IF n = 200 THEN "200" ELSE "404"
Bodies == {"", "<html>"}

(* what self.client.get(url) can do *)
Transport ==
    { [kind |-> k, status |-> 0, ctype |-> <<>>, body |-> ""] :
          k \in {"TimeoutException", "InvalidURL", "RequestError", "OtherException"} }
    \cup
    { [kind |-> "response", status |-> st, ctype |-> ct, body |-> b] :
          st \in Statuses, ct \in CTypes, b \in Bodies }

(* the pair (html, err) fetch_html returns, or the exception it lets through *)
fetch_html(o) ==
    IF o.kind = "TimeoutException"
      THEN [exc |-> "", html |-> None, err |-> Some(Msg("timeout", <<"12.0s">>))]
    ELSE IF o.kind = "InvalidURL"
      THEN [exc |-> "", html |-> None, err |-> Some(Msg("invalid URL", <<>>))]
    ELSE IF o.kind = "RequestError"
      THEN [exc |-> "", html |-> None, err |-> Some(Msg("request error", <<"ConnectError">>))]
    ELSE IF o.kind = "OtherException"
      THEN [exc |-> "OtherException", html |-> None, err |-> None]
    ELSE LET ctype == Lower(o.ctype) IN
         IF o.status >= 400
           THEN [exc |-> "", html |-> None, err |-> Some(Msg("http", <<StatusStr(o.status)>>))]
         ELSE IF ~Contains(ctype, "text/html") /\ ~Contains(ctype, "application/xhtml+xml")
           THEN [exc |-> "", html |-> None,
                 err |-> Some(Msg("unsupported content-type",
                                  IF ctype = <<>> THEN <<"unknown">> ELSE ctype))]
         ELSE [exc |-> "", html |-> Some(o.body), err |-> None]

----------------------------------------------------------------------------
(* ContentScraper.extract_main_text *)

WS == {" ", "\t", "\n"}

RECURSIVE LStrip(_)
LStrip(s) == IF s # <<>> /\ Head(s) \in WS THEN LStrip(Tail(s)) ELSE s

RECURSIVE RStrip(_)
RStrip(s) == IF s # <<>> /\ s[Len(s)] \in WS THEN RStrip(SubSeq(s, 1, Len(s) - 1)) ELSE s

(* str.strip() *)
Strip(s) == RStrip(LStrip(s))

(* length of the whitespace run at the head of s *)
RECURSIVE WsRun(_)
WsRun(s) == IF s # <<>> /\ Head(s) \in WS THEN 1 + WsRun(Tail(s)) ELSE 0

(* re.sub(r"\s{3,}", "\n\n", s) *)
RECURSIVE Collapse(_)
Collapse(s) ==
    IF s = <<>> THEN <<>>
    ELSE LET n == WsRun(s) IN
         IF n >= 3 THEN <<"\n", "\n">> \o Collapse(SubSeq(s, n + 1, Len(s)))
         ELSE IF n > 0 THEN SubSeq(s, 1, n) \o Collapse(SubSeq(s, n + 1, Len(s)))
         ELSE <<Head(s)>> \o Collapse(Tail(s))

Clean(txt) == Collapse(Strip(txt))

(* Python truthiness of an Optional[str] *)
Truthy(o) == ~IsNone(o) /\ Get(o) # <<>>

(* what an extraction strategy can do on some markup: raise, or return     *)
(* None or a string                                                        *)
PrimaryTexts == { <<>>, <<" ", "\n">>, <<" ", "a", " ", "\n", "\t", " ", "b">> }
SecondaryTexts == { <<>>, <<"\n">>, <<"c", " ">> }

Outcomes(texts) ==
    { [raised |-> TRUE, txt |-> None], [raised |-> FALSE, txt |-> None] }
    \cup { [raised |-> FALSE, txt |-> Some(t)] : t \in texts }

(* primary: trafilatura.extract; secondary: readability Document.summary   *)
(* + text_content, tried only when the library was importable              *)
extract_main_text(primary, secondary, hasReadability) ==
    IF ~primary.raised /\ Truthy(primary.txt)
      THEN Some(Clean(Get(primary.txt)))
    ELSE IF hasReadability /\ ~secondary.raised /\ Truthy(secondary.txt)
      THEN Some(Clean(Get(secondary.txt)))
    ELSE None

----------------------------------------------------------------------------
(* State of a request and of its worker tasks *)

NoRes == [exc |-> "", item |-> NoItem]

IdleRun == [pc |-> "idle", status |-> 0, detail |-> "", trace |-> <<>>,
            urls |-> <<>>, client |-> "none", results |-> <<>>, items |-> <<>>,
            finished |-> <<>>]

(* worker(u) as created by [worker(u) for u in urls] *)
NewTask(u) == [pc |-> "pending", url |-> u, fetches |-> 0, html |-> None,
               err |-> None, res |-> NoRes]

NumTasks == Sum([r \in Runs |-> Len(task[r])], Runs)

Tasks(r) == 1..Len(task[r])

(* no call of extract_pdf_urls is followed step by step *)
NoDiscovery ==
    /\ x_pc = "idle"
    /\ max_urls = 0
    /\ urls = {}
    /\ url_list = <<>>
    /\ page = 0
    /\ reading = FALSE
    /\ part_n = 0
    /\ occ = <<>>

(* no call of normalize_url is followed on its own *)
NoNormalizer ==
    /\ n_pc = "idle"
    /\ n_raw = <<>>
    /\ n_other = <<>>
    /\ n_norm = None
    /\ n_norm_other = None
    /\ n_renorm = None

(* no worker is followed on its own *)
NoWorker ==
    /\ w_pc = "idle"
    /\ w_url = ""
    /\ w_resp = <<>>
    /\ w_primary = <<>>
    /\ w_secondary = <<>>
    /\ w_err = None
    /\ w_tried = <<>>
    /\ w_text = None
    /\ w_res = NoRes

Init ==
    /\ cfg \in [CONCURRENCY : ConcurrencyValues, HAS_READABILITY : BOOLEAN]
    /\ sem = cfg.CONCURRENCY
    /\ run = [r \in Runs |-> IdleRun]
    /\ task = [r \in Runs |-> <<>>]
    /\ NoDiscovery
    /\ NoNormalizer
    /\ NoWorker

----------------------------------------------------------------------------
(* scrape_resume_links, from the return of resume_pdf.read() up to the     *)
(* await of asyncio.gather inside scrape_urls.  The document is the input: *)
(* its size, whether fitz can open it, and the set of canonical URLs in it *)

Documents ==
    { [oversize |-> o, opens |-> p, urls |-> S] :
          o \in BOOLEAN, p \in {"ok", "FileDataError", "Exception"}, S \in SUBSET URLS }

Reject(r, code, detail, trace) ==
    /\ run' = [run EXCEPT ![r].pc = "rejected", ![r].status = code,
                          ![r].detail = detail, ![r].trace = trace]
    /\ UNCHANGED task

(* variant: the handler without its "if not urls" rejection *)
scrape_resume_links_NoEmptyCheck(r) ==
    /\ run[r].pc = "idle"
    /\ \E doc \in Documents :
         IF doc.oversize
           THEN Reject(r, 413, "PDF too large", <<"size">>)
         ELSE IF doc.opens = "FileDataError"
           THEN Reject(r, 400, "Invalid or corrupted PDF", <<"size", "parse">>)
         ELSE IF doc.opens = "Exception"
           THEN Reject(r, 400, "PDF parse error", <<"size", "parse">>)
         ELSE \E shuffled \in Shuffles(doc.urls) :
                LET got == SlicePrefix(shuffled, MAX_URLS) IN
                /\ NumTasks + Len(got) <= MaxTasks
                /\ run' = [run EXCEPT ![r].pc = "gathering",
                                      ![r].trace = <<"size", "parse", "discover", "scrape_urls">>,
                                      ![r].urls = got,
                                      ![r].client = "open"]
                /\ task' = [task EXCEPT ![r] = [i \in 1..Len(got) |-> NewTask(got[i])]]
    /\ UNCHANGED <<discovery, normalizer, one_worker, cfg, sem>>

scrape_resume_links(r) ==
    /\ run[r].pc = "idle"
    /\ \E doc \in Documents :
         IF doc.oversize
           THEN Reject(r, 413, "PDF too large", <<"size">>)
         ELSE IF doc.opens = "FileDataError"
           THEN Reject(r, 400, "Invalid or corrupted PDF", <<"size", "parse">>)
         ELSE IF doc.opens = "Exception"
           THEN Reject(r, 400, "PDF parse error", <<"size", "parse">>)
         ELSE \E shuffled \in Shuffles(doc.urls) :
                LET got == SlicePrefix(shuffled, MAX_URLS) IN
                IF got = <<>>
                  THEN Reject(r, 422, "No hyperlinks found in the PDF",
                              <<"size", "parse", "discover">>)
                ELSE /\ NumTasks + Len(got) <= MaxTasks
                     /\ run' = [run EXCEPT ![r].pc = "gathering",
                                           ![r].trace = <<"size", "parse", "discover", "scrape_urls">>,
                                           ![r].urls = got,
                                           ![r].client = "open"]
                     /\ task' = [task EXCEPT ![r] = [i \in 1..Len(got) |-> NewTask(got[i])]]
    /\ UNCHANGED <<discovery, normalizer, one_worker, cfg, sem>>

----------------------------------------------------------------------------
(* worker(url) *)

(* variant: the sleep is inside async with self.sem, the slot is taken     *)
(* before the delay                                                        *)
Start_InsideSlot(r, i) ==
    /\ task[r][i].pc = "pending"
    /\ sem > 0
    /\ sem' = sem - 1
    /\ task' = [task EXCEPT ![r][i].pc = "delayed"]
    /\ UNCHANGED <<discovery, normalizer, one_worker, cfg, run>>

(* a new task runs up to await asyncio.sleep(PER_REQUEST_DELAY_S) *)
Start(r, i) ==
    /\ task[r][i].pc = "pending"
    /\ task' = [task EXCEPT ![r][i].pc = "delayed"]
    /\ UNCHANGED <<discovery, normalizer, one_worker, cfg, sem, run>>

(* the sleep is over: the task asks for a slot *)
SleepDone(r, i) ==
    /\ task[r][i].pc = "delayed"
    /\ task' = [task EXCEPT ![r][i].pc = "waiting"]
    /\ UNCHANGED <<discovery, normalizer, one_worker, cfg, sem, run>>

(* variant: the slot is taken without waiting for a free one *)
Acquire_Unbounded(r, i) ==
    /\ task[r][i].pc = "waiting"
    /\ sem' = sem - 1
    /\ task' = [task EXCEPT ![r][i].pc = "fetching",
                            ![r][i].fetches = task[r][i].fetches + 1]
    /\ UNCHANGED <<discovery, normalizer, one_worker, cfg, run>>

(* variant: every call of scrape_urls has a semaphore of its own *)
Acquire_PerRun(r, i) ==
    /\ task[r][i].pc = "waiting"
    /\ Cardinality({j \in Tasks(r) : task[r][j].pc \in {"fetching", "extracting",
                                                         "failed_fetch"}})
          < cfg.CONCURRENCY
    /\ sem' = sem - 1
    /\ task' = [task EXCEPT ![r][i].pc = "fetching",
                            ![r][i].fetches = task[r][i].fetches + 1]
    /\ UNCHANGED <<discovery, normalizer, one_worker, cfg, run>>

(* async with self.sem: entered, client.get(url) issued *)
Acquire(r, i) ==
    /\ task[r][i].pc = "waiting"
    /\ sem > 0
    /\ sem' = sem - 1
    /\ task' = [task EXCEPT ![r][i].pc = "fetching",
                            ![r][i].fetches = task[r][i].fetches + 1]
    /\ UNCHANGED <<discovery, normalizer, one_worker, cfg, run>>

(* variant: acquire and release are called by hand, and an exception      *)
(* inside the section skips the release                                    *)
Finish_KeepsSlotOnException(r, i, res) ==
    /\ task' = [task EXCEPT ![r][i].pc = "done", ![r][i].res = res,
                            ![r][i].html = None, ![r][i].err = None]
    /\ run' = [run EXCEPT ![r].finished = Append(run[r].finished, i)]
    /\ sem' = IF res.exc # "" THEN sem ELSE sem + 1
    /\ UNCHANGED <<discovery, normalizer, one_worker, cfg>>

(* the task ends with res (a ScrapeItem or an exception), leaving the      *)
(* async with block, which releases the slot                               *)
Finish(r, i, res) ==
    /\ task' = [task EXCEPT ![r][i].pc = "done", ![r][i].res = res,
                            ![r][i].html = None, ![r][i].err = None]
    /\ run' = [run EXCEPT ![r].finished = Append(run[r].finished, i)]
    /\ sem' = sem + 1
    /\ UNCHANGED <<discovery, normalizer, one_worker, cfg>>

(* variant: a timed-out GET is issued a second time *)
FetchReturn_RetryTimeout(r, i) ==
    /\ task[r][i].pc = "fetching"
    /\ \E o \in Transport :
         LET f == fetch_html(o) IN
         IF o.kind = "TimeoutException" /\ task[r][i].fetches < 2
           THEN /\ task' = [task EXCEPT ![r][i].fetches = task[r][i].fetches + 1]
                /\ UNCHANGED <<discovery, normalizer, one_worker, cfg, sem, run>>
         ELSE IF f.exc # "" THEN Finish(r, i, [exc |-> f.exc, item |-> NoItem])
         ELSE /\ task' = [task EXCEPT ![r][i].pc = IF IsNone(f.err) THEN "extracting"
                                                   ELSE "failed_fetch",
                                      ![r][i].html = f.html,
                                      ![r][i].err = f.err]
              /\ UNCHANGED <<discovery, normalizer, one_worker, cfg, sem, run>>

(* html, err = await scraper.fetch_html(url) *)
FetchReturn(r, i) ==
    /\ task[r][i].pc = "fetching"
    /\ \E o \in Transport :
         LET f == fetch_html(o) IN
         IF f.exc # "" THEN Finish(r, i, [exc |-> f.exc, item |-> NoItem])
         ELSE /\ task' = [task EXCEPT ![r][i].pc = IF IsNone(f.err) THEN "extracting"
                                                   ELSE "failed_fetch",
                                      ![r][i].html = f.html,
                                      ![r][i].err = f.err]
              /\ UNCHANGED <<discovery, normalizer, one_worker, cfg, sem, run>>

(* if err: return ScrapeItem(source_url=url, status="error", error_message=err) *)
FailedFetch(r, i) ==
    /\ task[r][i].pc = "failed_fetch"
    /\ Finish(r, i, ScrapeItem(task[r][i].url, "error", None, task[r][i].err))

(* variant: only a missing text is an error, an empty one is not *)
TextItem_NoneOnly(url, text) ==
    IF IsNone(text)
      THEN ScrapeItem(url, "error", None, Some(Msg("no main content extracted", <<>>)))
    ELSE ScrapeItem(url, "success", text, None)

(* the record built from the extracted text *)
TextItem(url, text) ==
    IF ~Truthy(text)
      THEN ScrapeItem(url, "error", None, Some(Msg("no main content extracted", <<>>)))
    ELSE ScrapeItem(url, "success", text, None)

(* text = scraper.extract_main_text(html or "") and the record built from it *)
Extract(r, i) ==
    /\ task[r][i].pc = "extracting"
    /\ \E p \in Outcomes(PrimaryTexts), s \in Outcomes(SecondaryTexts) :
         Finish(r, i, TextItem(task[r][i].url,
                               extract_main_text(p, s, cfg.HAS_READABILITY)))

----------------------------------------------------------------------------
(* scrape_urls after the tasks *)

(* variant: the results in the order the tasks finished *)
gather_as_completed(r) == [k \in Tasks(r) |-> task[r][run[r].finished[k]].res]

(* asyncio.gather over the tasks with return_exceptions=True: the results  *)
(* in the order of the awaitables                                          *)
gather(r) == [i \in Tasks(r) |-> task[r][i].res]

(* variant: the client is not used as a context manager and stays open *)
GatherDone_LeaksClient(r) ==
    /\ run[r].pc = "gathering"
    /\ \A i \in Tasks(r) : task[r][i].pc = "done"
    /\ run' = [run EXCEPT ![r].pc = "collecting", ![r].results = gather(r)]
    /\ UNCHANGED <<discovery, normalizer, one_worker, cfg, sem, task>>

(* gather returns when every task is done; leaving the async with block    *)
(* closes the client                                                       *)
GatherDone(r) ==
    /\ run[r].pc = "gathering"
    /\ \A i \in Tasks(r) : task[r][i].pc = "done"
    /\ run' = [run EXCEPT ![r].pc = "collecting", ![r].results = gather(r),
                          ![r].client = "closed"]
    /\ UNCHANGED <<discovery, normalizer, one_worker, cfg, sem, task>>

(* for res, url in zip(results, urls): the record of one pair *)
Collected(res, url) ==
    IF res.exc # ""
      THEN ScrapeItem(url, "error", None, Some(Msg("internal error", <<res.exc>>)))
    ELSE res

(* the items loop; a ScrapeItem constructor that raises ends scrape_urls   *)
(* and the request with the exception                                      *)
Collect(r) ==
    /\ run[r].pc = "collecting"
    /\ LET n == Min(Len(run[r].results), Len(run[r].urls))
           out == [k \in 1..n |-> Collected(run[r].results[k], run[r].urls[k])]
       IN  IF \E k \in 1..n : out[k].exc # ""
             THEN run' = [run EXCEPT ![r].pc = "raised", ![r].status = 500,
                                     ![r].detail = "ValidationError"]
           ELSE run' = [run EXCEPT ![r].pc = "responded", ![r].status = 200,
                                   ![r].items = [k \in 1..n |-> out[k].item]]
    /\ UNCHANGED <<discovery, normalizer, one_worker, cfg, sem, task>>

----------------------------------------------------------------------------

Next ==
    \/ \E r \in Runs : scrape_resume_links(r)
    \/ \E r \in Runs : \E i \in Tasks(r) : Start(r, i)
    \/ \E r \in Runs : \E i \in Tasks(r) : SleepDone(r, i)
    \/ \E r \in Runs : \E i \in Tasks(r) : Acquire(r, i)
    \/ \E r \in Runs : \E i \in Tasks(r) : FetchReturn(r, i)
    \/ \E r \in Runs : \E i \in Tasks(r) : FailedFetch(r, i)
    \/ \E r \in Runs : \E i \in Tasks(r) : Extract(r, i)
    \/ \E r \in Runs : GatherDone(r)
    \/ \E r \in Runs : Collect(r)

Spec == Init /\ [][Next]_vars

(* the steps the event loop takes on its own, once a request is in *)
Progress ==
    \/ \E r \in Runs : \E i \in Tasks(r) : Start(r, i)
    \/ \E r \in Runs : \E i \in Tasks(r) : SleepDone(r, i)
    \/ \E r \in Runs : \E i \in Tasks(r) : Acquire(r, i)
    \/ \E r \in Runs : \E i \in Tasks(r) : FetchReturn(r, i)
    \/ \E r \in Runs : \E i \in Tasks(r) : FailedFetch(r, i)
    \/ \E r \in Runs : \E i \in Tasks(r) : Extract(r, i)
    \/ \E r \in Runs : GatherDone(r)
    \/ \E r \in Runs : Collect(r)

FairSpec == Spec /\ WF_vars(Progress)

----------------------------------------------------------------------------
(* Strings as sequences of characters *)

LC == <<"a","b","c","d","e","f","g","h","i","j","k","l","m",
        "n","o","p","q","r","s","t","u","v","w","x","y","z">>
UC == <<"A","B","C","D","E","F","G","H","I","J","K","L","M",
        "N","O","P","Q","R","S","T","U","V","W","X","Y","Z">>
Letters == Range(LC) \cup Range(UC)
Digits == {"0","1","2","3","4","5","6","7","8","9"}

(* str.lower() *)
LowerChar(c) == IF c \in Range(UC) THEN LC[CHOOSE i \in 1..26 : UC[i] = c] ELSE c
LowerStr(s) == [i \in 1..Len(s) |-> LowerChar(s[i])]

(* s[i:] and s[:i], with Python's 0-based i *)
From(s, i) == SubSeq(s, i + 1, Len(s))
Upto(s, i) == SubSeq(s, 1, i)

(* s.startswith(p) *)
StartsWith(s, p) == Len(s) >= Len(p) /\ SubSeq(s, 1, Len(p)) = p

(* s.find(c) for a character of a set: 0-based index of the first one, or -1 *)
FindAny(s, cs) == IF \E i \in 1..Len(s) : s[i] \in cs
                  THEN (CHOOSE i \in 1..Len(s) :
                           s[i] \in cs /\ \A j \in 1..(i - 1) : s[j] \notin cs) - 1
                  ELSE -1

(* s.rstrip(chars), s.lstrip(chars) *)
RECURSIVE RStripChars(_, _)
RStripChars(s, cs) == IF s # <<>> /\ s[Len(s)] \in cs
                      THEN RStripChars(SubSeq(s, 1, Len(s) - 1), cs) ELSE s

RECURSIVE LStripChars(_, _)
LStripChars(s, cs) == IF s # <<>> /\ Head(s) \in cs THEN LStripChars(Tail(s), cs) ELSE s

(* s.replace(c, "") for the characters of a set *)
Without(s, cs) == SelectSeq(s, LAMBDA c : c \notin cs)

----------------------------------------------------------------------------
(* urllib.parse.urlsplit and urlunsplit, as URLExtractor.normalize_url     *)
(* uses them                                                               *)

scheme_chars == Letters \cup Digits \cup {"+", "-", "."}
uses_netloc == { <<"h","t","t","p">>, <<"h","t","t","p","s">>, <<"f","t","p">> }

NoParts == [error |-> TRUE, scheme |-> <<>>, netloc |-> <<>>, path |-> <<>>,
            query |-> <<>>, fragment |-> <<>>]

(* if '?' in url: url, query = url.split('?', 1) *)
SplitQuery(scheme, netloc, url, fragment) ==
    LET q == FindAny(url, {"?"}) IN
    [error |-> FALSE, scheme |-> scheme, netloc |-> netloc,
     path |-> IF q < 0 THEN url ELSE Upto(url, q),
     query |-> IF q < 0 THEN <<>> ELSE From(url, q + 1),
     fragment |-> fragment]

(* if '#' in url: url, fragment = url.split('#', 1) *)
SplitFragment(scheme, netloc, url) ==
    LET h == FindAny(url, {"#"}) IN
    IF h < 0 THEN SplitQuery(scheme, netloc, url, <<>>)
    ELSE SplitQuery(scheme, netloc, Upto(url, h), From(url, h + 1))

(* a netloc with one bracket and not the other: ValueError *)
CheckedNetloc(scheme, netloc, url) ==
    IF ("[" \in Range(netloc)) # ("]" \in Range(netloc)) THEN NoParts
    ELSE SplitFragment(scheme, netloc, url)

(* if url[:2] == '//': netloc, url = _splitnetloc(url, 2) *)
SplitNetloc(scheme, url) ==
    IF ~StartsWith(url, <<"/", "/">>) THEN SplitFragment(scheme, <<>>, url)
    ELSE LET d == FindAny(From(url, 2), {"/", "?", "#"}) IN
         IF d < 0 THEN CheckedNetloc(scheme, From(url, 2), <<>>)
         ELSE CheckedNetloc(scheme, SubSeq(url, 3, d + 2), From(url, d + 2))

(* the scheme: the characters before the first ':', when they are scheme   *)
(* characters and the first is a letter; lowercased                        *)
SplitScheme(url) ==
    LET i == FindAny(url, {":"}) IN
    IF i > 0 /\ url[1] \in Letters /\ \A j \in 1..i : url[j] \in scheme_chars
    THEN SplitNetloc(LowerStr(Upto(url, i)), From(url, i + 1))
    ELSE SplitNetloc(<<>>, url)

(* leading whitespace is stripped and tabs and newlines are removed first *)
urlsplit(raw) == SplitScheme(Without(LStripChars(raw, WS), {"\t", "\n"}))

urlunsplit(parts) ==
    LET url1 == IF parts.netloc # <<>>
                   \/ (parts.scheme # <<>> /\ parts.scheme \in uses_netloc
                       /\ ~StartsWith(parts.path, <<"/", "/">>))
                THEN <<"/", "/">> \o parts.netloc
                     \o (IF parts.path # <<>> /\ Head(parts.path) # "/"
                         THEN <<"/">> ELSE <<>>)
                     \o parts.path
                ELSE parts.path
        url2 == IF parts.scheme # <<>> THEN parts.scheme \o <<":">> \o url1 ELSE url1
        url3 == IF parts.query # <<>> THEN url2 \o <<"?">> \o parts.query ELSE url2
    IN  IF parts.fragment # <<>> THEN url3 \o <<"#">> \o parts.fragment ELSE url3

----------------------------------------------------------------------------
(* URLExtractor *)

_TRAILING_PUNCT == {")", "]", ",", ".", ";", ":", ">", "\"", "'"}

_strip_trailing_punct(url) == RStripChars(url, _TRAILING_PUNCT)

WWW == <<"w", "w", "w", ".">>
HTTP == <<"h", "t", "t", "p", ":", "/", "/">>
HTTPS == <<"h", "t", "t", "p", "s", ":", "/", "/">>

(* if raw.lower().startswith("www."): raw = "http://" + raw *)
WithScheme(raw) == IF StartsWith(LowerStr(raw), WWW) THEN HTTP \o raw ELSE raw

(* the checks on the parts, and the URL put together without its fragment *)
Reassembled(parts) ==
    IF parts.error THEN None
    ELSE IF parts.scheme \notin { <<"h","t","t","p">>, <<"h","t","t","p","s">> } THEN None
    ELSE IF parts.netloc = <<>> THEN None
    ELSE Some(urlunsplit([parts EXCEPT !.fragment = <<>>]))

(* variant: the trailing punctuation is left on the URL *)
normalize_url_KeepPunct(raw) == Reassembled(urlsplit(WithScheme(Strip(raw))))

normalize_url(raw) ==
    Reassembled(urlsplit(WithScheme(_strip_trailing_punct(Strip(raw)))))

(* _URL_RE, case-insensitive: the prefix http://, https:// or www., then   *)
(* one or more of [\w.-], then optionally : and 2 to 5 digits, then        *)
(* optionally / and any run of characters other than whitespace and <      *)

WordChars == Letters \cup Digits \cup {"_"}

(* number of leading characters of s that are in cs, at most max *)
RECURSIVE RunLen(_, _, _)
RunLen(s, cs, max) == IF max > 0 /\ s # <<>> /\ Head(s) \in cs
                      THEN 1 + RunLen(Tail(s), cs, max - 1) ELSE 0

(* length of the match of (?:https?://|www\.) at the head of s, 0 if none *)
PrefixLen(s) ==
    LET l == LowerStr(s) IN
    IF StartsWith(l, HTTPS) THEN Len(HTTPS)
    ELSE IF StartsWith(l, HTTP) THEN Len(HTTP)
    ELSE IF StartsWith(l, WWW) THEN Len(WWW)
    ELSE 0

(* the optional path of _URL_RE at the head of s: a slash, then any      *)
(* characters but whitespace and "<"                                     *)
PathLen(s) ==
    IF s # <<>> /\ Head(s) = "/"
    THEN 1 + RunLen(Tail(s), {c \in Range(s) : c \notin WS \cup {"<"}}, Len(s))
    ELSE 0

(* the optional port of _URL_RE at the head of s: a colon, then two to   *)
(* five digits                                                           *)
PortLen(s) ==
    IF s # <<>> /\ Head(s) = ":" /\ RunLen(Tail(s), Digits, 5) >= 2
    THEN 1 + RunLen(Tail(s), Digits, 5)
    ELSE 0

(* the host of _URL_RE at the head of s: word characters, "." and "-"    *)
HostLen(s) == RunLen(s, WordChars \cup {".", "-"}, Len(s))

(* length of the port and path after the host that ends at n *)
TailLen(s, n) == PortLen(From(s, n)) + PathLen(From(s, n + PortLen(From(s, n))))

(* length of the match of _URL_RE at the head of s, 0 if none *)
MatchLen(s) ==
    IF PrefixLen(s) = 0 \/ HostLen(From(s, PrefixLen(s))) = 0 THEN 0
    ELSE PrefixLen(s) + HostLen(From(s, PrefixLen(s)))
         + TailLen(s, PrefixLen(s) + HostLen(From(s, PrefixLen(s))))

(* _URL_RE.findall(s) *)
RECURSIVE findall(_)
findall(s) ==
    IF s = <<>> THEN <<>>
    ELSE LET n == MatchLen(s) IN
         IF n > 0 THEN <<Upto(s, n)>> \o findall(From(s, n))
         ELSE findall(Tail(s))

----------------------------------------------------------------------------
(* URLExtractor.extract_pdf_urls, page by page *)

MaxPages == 2     \* pages of the document
MaxWords == 2     \* URL-bearing words in the text of a page
MaxLinks == 1     \* link annotations of a page

(* values of the argument max_urls *)
MaxUrlsValues == {-3, -1, 0, 2, 4}

(* the URLs written in the document *)
HOST == <<"a", ".", "i", "o">>
Written == << <<"H", "t", "t", "p", ":", "/", "/">> \o HOST \o <<"/", "x", "#", "f">>,
              WWW \o HOST,
              HTTP \o HOST \o <<"?", "q">>,
              <<"f", "t", "p", ":", "/", "/">> \o HOST >>
(* the punctuation that follows an occurrence *)
Trailing == { <<>>, <<")", ".">> }

(* an occurrence: the b-th URL followed by punctuation *)
Occurrences == (1..Len(Written)) \X Trailing
Raw(o) == Written[o[1]] \o o[2]

(* a link annotation without a uri (an internal link) *)
NoUri == <<0, <<>>>>
Uri(o) == IF o = NoUri THEN <<>> ELSE Raw(o)

NoOcc == [b \in 1..Len(Written) |-> [seen |-> 0, read |-> FALSE]]

(* the occurrence o is in the document; covered: discovery read it *)
Noted(h, o, covered) ==
    IF o = NoUri THEN h
    ELSE [h EXCEPT ![o[1]] = [seen |-> Min(h[o[1]].seen + 1, 2),
                              read |-> h[o[1]].read \/ covered]]

(* findall on the words of the document and normalize_url on the strings   *)
(* handed to it, computed once                                             *)
Found == [o \in Occurrences |-> findall(Raw(o))]
Handed == {Raw(o) : o \in Occurrences} \cup UNION {Range(Found[o]) : o \in Occurrences}
Norm == [m \in Handed |-> normalize_url(m)]

(* the pattern matched the URL of the occurrence to its end *)
MatchedWhole(o) == \E m \in Range(Found[o]) : StartsWith(m, Written[o[1]])

(* for m in findall(text): norm = normalize_url(m); if norm: urls.add(norm) *)
RECURSIVE AddAll(_, _)
AddAll(set, raws) ==
    IF raws = <<>> THEN set
    ELSE LET norm == Norm[Head(raws)] IN
         AddAll(IF Truthy(norm) THEN set \cup {Get(norm)} ELSE set, Tail(raws))

DiscoveryInit ==
    /\ cfg = [CONCURRENCY |-> 1, HAS_READABILITY |-> TRUE]
    /\ sem = cfg.CONCURRENCY
    /\ run = [r \in Runs |-> IdleRun]
    /\ task = [r \in Runs |-> <<>>]
    /\ x_pc = "open"
    /\ max_urls \in MaxUrlsValues
    /\ urls = {}
    /\ url_list = <<>>
    /\ page = 0
    /\ reading = FALSE
    /\ part_n = 0
    /\ occ = NoOcc
    /\ NoNormalizer
    /\ NoWorker

(* fitz.open(stream=pdf_bytes, filetype="pdf"): the document, or raises *)
Open ==
    /\ x_pc = "open"
    /\ \E opens \in BOOLEAN : x_pc' = IF opens THEN "pages" ELSE "raised"
    /\ UNCHANGED <<service, normalizer, one_worker, max_urls, urls, url_list, page, reading, part_n, occ>>

(* for page in doc: the next page; the first try block starts and          *)
(* page.get_text("text") returns the text or raises                        *)
GetText ==
    /\ x_pc = "pages"
    /\ page < MaxPages
    /\ page' = page + 1
    /\ reading' \in BOOLEAN
    /\ part_n' = 0
    /\ x_pc' = "text"
    /\ UNCHANGED <<service, normalizer, one_worker, max_urls, urls, url_list, occ>>

(* one more word of the text of the page, an occurrence o: when the text   *)
(* was read, for m in findall(text) adds the canonical forms of the        *)
(* matches in it                                                           *)
TextWord ==
    /\ x_pc = "text"
    /\ part_n < MaxWords
    /\ \E o \in Occurrences :
         /\ urls' = IF reading THEN AddAll(urls, Found[o]) ELSE urls
         /\ occ' = Noted(occ, o, reading /\ MatchedWhole(o))
    /\ part_n' = part_n + 1
    /\ UNCHANGED <<service, normalizer, one_worker, x_pc, max_urls, url_list, page, reading>>

(* variant: page.get_links() is called outside a try block, and when it    *)
(* raises the exception ends extract_pdf_urls                              *)
GetLinks_Aborts ==
    /\ x_pc = "text"
    /\ reading' \in BOOLEAN
    /\ part_n' = 0
    /\ x_pc' = IF reading' THEN "links" ELSE "raised"
    /\ UNCHANGED <<service, normalizer, one_worker, max_urls, urls, url_list, page, occ>>

(* the second try block starts: page.get_links() returns the link          *)
(* annotations or raises                                                   *)
GetLinks ==
    /\ x_pc = "text"
    /\ reading' \in BOOLEAN
    /\ part_n' = 0
    /\ x_pc' = "links"
    /\ UNCHANGED <<service, normalizer, one_worker, max_urls, urls, url_list, page, occ>>

(* one more link annotation of the page, with a uri or without: when the   *)
(* links were read, a uri that is not empty is normalized and added        *)
Link ==
    /\ x_pc = "links"
    /\ part_n < MaxLinks
    /\ \E o \in Occurrences \cup {NoUri} :
         /\ urls' = IF reading /\ Uri(o) # <<>> THEN AddAll(urls, <<Uri(o)>>) ELSE urls
         /\ occ' = Noted(occ, o, reading)
    /\ part_n' = part_n + 1
    /\ UNCHANGED <<service, normalizer, one_worker, x_pc, max_urls, url_list, page, reading>>

(* the page is done *)
EndPage ==
    /\ x_pc = "links"
    /\ x_pc' = "pages"
    /\ UNCHANGED <<service, normalizer, one_worker, max_urls, urls, url_list, page, reading, part_n, occ>>

(* after the last page: url_list = list(urls); random.shuffle(url_list);   *)
(* return url_list[:max_urls]                                              *)
Return ==
    /\ x_pc = "pages"
    /\ \E shuffled \in Shuffles(urls) : url_list' = SlicePrefix(shuffled, max_urls)
    /\ x_pc' = "returned"
    /\ UNCHANGED <<service, normalizer, one_worker, max_urls, urls, page, reading, part_n, occ>>

DiscoveryNext ==
    \/ Open
    \/ GetText
    \/ TextWord
    \/ GetLinks
    \/ Link
    \/ EndPage
    \/ Return

DiscoverySpec == DiscoveryInit /\ [][DiscoveryNext]_vars

----------------------------------------------------------------------------
(* URLExtractor.normalize_url followed on its own, on raw strings put      *)
(* together from pieces: NormalizeSpec                                     *)

MaxPieces == 3    \* pieces of a raw string before its fragment

(* the pieces raw strings are made of *)
Pieces == { HTTP, <<"H", "T", "T", "P", "S", ":", "/", "/">>, WWW,
            <<"f", "t", "p", ":", "/", "/">>, HOST, <<":", "8", "0">>,
            <<"/", "x">>, <<"?", "q">>, <<".">>, <<")">>, <<" ">>, <<"[">> }

(* the fragments appended to them; the empty one is no fragment at all *)
Fragments == { <<>>, <<"#", "f">>, <<"#", "g", ")">> }

RECURSIVE Concat(_)
Concat(ps) == IF ps = <<>> THEN <<>> ELSE Head(ps) \o Concat(Tail(ps))

(* raw strings without a fragment *)
Bases == {Concat(ps) : ps \in UNION {[1..m -> Pieces] : m \in 0..MaxPieces}}

(* the host inside a netloc, as SplitResult.hostname finds it: what        *)
(* follows the last "@", up to the port's ":" or between square brackets   *)
RECURSIVE AfterLast(_, _)
AfterLast(s, cs) ==
    IF FindAny(s, cs) < 0 THEN s ELSE AfterLast(From(s, FindAny(s, cs) + 1), cs)

Unbracketed(hostinfo) ==
    IF FindAny(hostinfo, {":"}) < 0 THEN hostinfo
    ELSE Upto(hostinfo, FindAny(hostinfo, {":"}))

Bracketed(rest) ==
    IF FindAny(rest, {"]"}) < 0 THEN rest ELSE Upto(rest, FindAny(rest, {"]"}))

HostInfo(hostinfo) ==
    IF FindAny(hostinfo, {"["}) < 0 THEN Unbracketed(hostinfo)
    ELSE Bracketed(From(hostinfo, FindAny(hostinfo, {"["}) + 1))

Hostname(netloc) == LowerStr(HostInfo(AfterLast(netloc, {"@"})))

NormalizeInit ==
    /\ cfg = [CONCURRENCY |-> 1, HAS_READABILITY |-> TRUE]
    /\ sem = cfg.CONCURRENCY
    /\ run = [r \in Runs |-> IdleRun]
    /\ task = [r \in Runs |-> <<>>]
    /\ NoDiscovery
    /\ n_pc = "called"
    /\ \E base \in Bases, f \in Fragments, g \in Fragments :
         /\ f # g
         /\ n_raw = base \o f
         /\ n_other = base \o g
    /\ n_norm = None
    /\ n_norm_other = None
    /\ n_renorm = None
    /\ NoWorker

(* norm = normalize_url(raw) *)
Normalize ==
    /\ n_pc = "called"
    /\ n_norm' = normalize_url(n_raw)
    /\ n_pc' = "normalized"
    /\ UNCHANGED <<service, discovery, one_worker, n_raw, n_other, n_norm_other, n_renorm>>

(* normalize_url on the string with the other fragment *)
NormalizeOther ==
    /\ n_pc = "normalized"
    /\ n_norm_other' = normalize_url(n_other)
    /\ n_pc' = "compared"
    /\ UNCHANGED <<service, discovery, one_worker, n_raw, n_other, n_norm, n_renorm>>

(* normalize_url on the URL it returned *)
Renormalize ==
    /\ n_pc = "compared"
    /\ Truthy(n_norm)
    /\ n_renorm' = normalize_url(Get(n_norm))
    /\ n_pc' = "renormalized"
    /\ UNCHANGED <<service, discovery, one_worker, n_raw, n_other, n_norm, n_norm_other>>

NormalizeNext ==
    \/ Normalize
    \/ NormalizeOther
    \/ Renormalize

NormalizeSpec == NormalizeInit /\ [][NormalizeNext]_vars

----------------------------------------------------------------------------
(* One worker followed on its own through the body of async with self.sem, *)
(* with what the GET and the extraction strategies do for it written down: *)
(* WorkerSpec                                                              *)

(* the strategy returned a string that is not empty *)
Yields(o) == ~o.raised /\ Truthy(o.txt)

WorkerInit ==
    /\ cfg \in [CONCURRENCY : {1}, HAS_READABILITY : BOOLEAN]
    /\ sem = cfg.CONCURRENCY - 1
    /\ run = [r \in Runs |-> IdleRun]
    /\ task = [r \in Runs |-> <<>>]
    /\ NoDiscovery
    /\ NoNormalizer
    /\ w_pc = "fetching"
    /\ w_url \in URLS
    /\ w_resp \in Transport
    /\ w_primary \in Outcomes(PrimaryTexts)
    /\ w_secondary \in Outcomes(SecondaryTexts)
    /\ w_err = None
    /\ w_tried = <<>>
    /\ w_text = None
    /\ w_res = NoRes

(* html, err = await scraper.fetch_html(url); if err: ... *)
WorkerFetch ==
    /\ w_pc = "fetching"
    /\ w_err' = fetch_html(w_resp).err
    /\ IF fetch_html(w_resp).exc # ""
         THEN /\ w_res' = [exc |-> fetch_html(w_resp).exc, item |-> NoItem]
              /\ w_pc' = "done"
              /\ sem' = sem + 1
       ELSE /\ w_pc' = IF IsNone(fetch_html(w_resp).err) THEN "primary" ELSE "failed_fetch"
            /\ UNCHANGED <<w_res, sem>>
    /\ UNCHANGED <<cfg, run, task, discovery, normalizer, w_url, w_resp, w_primary,
                   w_secondary, w_tried, w_text>>

(* return ScrapeItem(source_url=url, status="error", error_message=err) *)
WorkerFailedFetch ==
    /\ w_pc = "failed_fetch"
    /\ w_res' = ScrapeItem(w_url, "error", None, w_err)
    /\ w_pc' = "done"
    /\ sem' = sem + 1
    /\ UNCHANGED <<cfg, run, task, discovery, normalizer, w_url, w_resp, w_primary,
                   w_secondary, w_err, w_tried, w_text>>

(* extract_main_text: the first try block, trafilatura.extract *)
WorkerPrimary ==
    /\ w_pc = "primary"
    /\ w_tried' = Append(w_tried, "primary")
    /\ IF Yields(w_primary)
         THEN w_text' = Some(Clean(Get(w_primary.txt))) /\ w_pc' = "extracted"
       ELSE IF cfg.HAS_READABILITY
         THEN w_text' = w_text /\ w_pc' = "secondary"
       ELSE w_text' = None /\ w_pc' = "extracted"
    /\ UNCHANGED <<service, discovery, normalizer, w_url, w_resp, w_primary,
                   w_secondary, w_err, w_res>>

(* extract_main_text: if HAS_READABILITY, the second try block *)
WorkerSecondary ==
    /\ w_pc = "secondary"
    /\ w_tried' = Append(w_tried, "secondary")
    /\ w_text' = IF Yields(w_secondary) THEN Some(Clean(Get(w_secondary.txt))) ELSE None
    /\ w_pc' = "extracted"
    /\ UNCHANGED <<service, discovery, normalizer, w_url, w_resp, w_primary,
                   w_secondary, w_err, w_res>>

(* if not text: return ScrapeItem(... "no main content extracted");        *)
(* return ScrapeItem(... status="success", scraped_text=text)              *)
WorkerRecord ==
    /\ w_pc = "extracted"
    /\ w_res' = TextItem(w_url, w_text)
    /\ w_pc' = "done"
    /\ sem' = sem + 1
    /\ UNCHANGED <<cfg, run, task, discovery, normalizer, w_url, w_resp, w_primary,
                   w_secondary, w_err, w_tried, w_text>>

WorkerNext ==
    \/ WorkerFetch
    \/ WorkerFailedFetch
    \/ WorkerPrimary
    \/ WorkerSecondary
    \/ WorkerRecord

WorkerSpec == WorkerInit /\ [][WorkerNext]_vars

----------------------------------------------------------------------------
(* Properties of Spec and FairSpec *)

Ended(r) == run[r].pc \in {"responded", "raised"}
InSection(r, i) == task[r][i].pc \in {"fetching", "extracting", "failed_fetch"}
NumInSection == Cardinality({ri \in Runs \X (1..MaxTasks) :
                                ri[2] \in Tasks(ri[1]) /\ InSection(ri[1], ri[2])})
HasItem(r, P(_)) == \E k \in 1..Len(run[r].items) : P(run[r].items[k])

(* C1: the i-th record scrape_urls returns carries the i-th input URL,    *)
(* whatever the order in which the tasks finished                         *)
C1_OrderPreserved ==
    \A r \in Runs : run[r].pc = "responded" =>
        \A i \in 1..Len(run[r].urls) :
            /\ i <= Len(run[r].items)
            /\ run[r].items[i].source_url = run[r].urls[i]

(* C1 witness: a run returned two records although its second task       *)
(* finished first                                                         *)
C1_Witness ==
    \E r \in Runs : /\ run[r].pc = "responded"
                    /\ Len(run[r].urls) = 2
                    /\ run[r].finished = <<2, 1>>

(* C2: an exception raised in a task becomes that URL's record with       *)
(* status error and an internal-error message, the run still returns,     *)
(* and the sibling records are the ones their tasks produced              *)
C2_FailureIsolated ==
    \A r \in Runs : Ended(r) =>
        /\ run[r].pc = "responded"
        /\ Len(run[r].items) = Len(task[r])
        /\ \A i \in Tasks(r) :
              IF task[r][i].res.exc # ""
                THEN run[r].items[i] =
                        [source_url |-> task[r][i].url, status |-> "error",
                         scraped_text |-> None,
                         error_message |-> Some(Msg("internal error", <<task[r][i].res.exc>>))]
              ELSE run[r].items[i] = task[r][i].res.item

(* C3: never more tasks between acquiring and releasing the semaphore     *)
(* than the configured maximum concurrency                                *)
C3_ConcurrencyBounded == NumInSection <= cfg.CONCURRENCY

(* C3 witness: every slot is taken and a task past its delay waits        *)
C3_Witness ==
    /\ NumInSection = cfg.CONCURRENCY
    /\ \E r \in Runs : \E i \in Tasks(r) : task[r][i].pc = "waiting"

(* C4: a run of scrape_urls puts out as many records as it was given      *)
(* URLs, exactly one per URL, whichever tasks failed and however          *)
C4_OneRecordPerUrl ==
    \A r \in Runs : Ended(r) =>
        /\ Len(run[r].items) = Len(run[r].urls)
        /\ \A k \in 1..Len(run[r].urls) :
              Cardinality({j \in 1..Len(run[r].items) :
                             run[r].items[j].source_url = run[r].urls[k]}) = 1

(* C5: with every fetch returning, every dispatched task reaches done and *)
(* scrape_urls returns                                                    *)
C5_EventuallyReturns ==
    \A r \in Runs :
        (run[r].pc = "gathering") ~>
            (run[r].pc = "responded" /\ \A i \in Tasks(r) : task[r][i].pc = "done")

(* what does hold under FairSpec: every task reaches done, no task stays  *)
(* blocked on the semaphore, and scrape_urls ends, by returning or by     *)
(* raising                                                                *)
RunsEnd ==
    \A r \in Runs :
        (run[r].pc = "gathering") ~>
            (Ended(r) /\ \A i \in Tasks(r) : task[r][i].pc = "done")

(* C6: a returned record with status success has a non-empty scraped_text *)
(* and no error_message; one with status error has an error_message and   *)
(* no scraped_text                                                        *)
C6_StatusDeterminesFields ==
    \A r \in Runs : \A k \in 1..Len(run[r].items) :
        LET it == run[r].items[k] IN
        /\ it.status \in {"success", "error"}
        /\ it.status = "success" =>
              /\ ~IsNone(it.scraped_text)
              /\ Get(it.scraped_text) # <<>>
              /\ IsNone(it.error_message)
        /\ it.status = "error" =>
              /\ ~IsNone(it.error_message)
              /\ IsNone(it.scraped_text)

IsSuccess(it) == it.status = "success"
IsNoContent(it) == it.error_message = Some(Msg("no main content extracted", <<>>))
IsTimeout(it) == /\ ~IsNone(it.error_message)
                 /\ Get(it.error_message).category = "timeout"

(* C6 witness: a returned report with a success record and a record of an *)
(* extraction that gave no text                                           *)
C6_Witness ==
    \E r \in Runs : /\ run[r].pc = "responded"
                    /\ HasItem(r, IsSuccess)
                    /\ HasItem(r, IsNoContent)

(* C7: a task issues its GET at most once, and exactly once by the time   *)
(* its run has ended                                                      *)
C7_FetchedOnce ==
    \A r \in Runs : \A i \in Tasks(r) :
        /\ task[r][i].fetches <= 1
        /\ (task[r][i].pc = "done" \/ Ended(r)) => task[r][i].fetches = 1

(* C7 witness: a run has returned the record of a fetch that timed out    *)
C7_Witness ==
    \E r \in Runs : run[r].pc = "responded" /\ HasItem(r, IsTimeout)

(* C8: each run-level rejection has its own status, comes at its own      *)
(* point of the handler (oversize before the parse, unparsable after it,  *)
(* no URL after discovery), and starts no scrape; a 200 response has      *)
(* records                                                                *)
C8_RunLevelRejections ==
    /\ \A r \in Runs :
          /\ run[r].status = 413 => run[r].trace = <<"size">>
          /\ run[r].status = 400 => run[r].trace = <<"size", "parse">>
          /\ run[r].status = 422 => /\ run[r].trace = <<"size", "parse", "discover">>
                                    /\ run[r].urls = <<>>
          /\ run[r].pc = "rejected" =>
                /\ run[r].status \in {413, 400, 422}
                /\ run[r].client = "none"
                /\ task[r] = <<>>
                /\ run[r].items = <<>>
          /\ run[r].status = 200 => run[r].items # <<>>
          /\ run[r].trace # <<>> /\ run[r].trace[Len(run[r].trace)] = "scrape_urls" =>
                run[r].pc # "rejected" /\ run[r].urls # <<>>
    /\ \A r1, r2 \in Runs :
          (run[r1].pc = "rejected" /\ run[r2].pc = "rejected"
              /\ run[r1].trace # run[r2].trace) =>
          (run[r1].status # run[r2].status /\ run[r1].detail # run[r2].detail)

(* C8 witness: one request rejected as oversized, another for having no   *)
(* URL                                                                    *)
C8_Witness ==
    \E r1, r2 \in Runs : run[r1].status = 413 /\ run[r2].status = 422

(* the step of task i of run r from position a to position b *)
Moves(r, i, a, b) == task[r][i].pc = a /\ task'[r][i].pc = b

C15_ClientLifecycle ==
    \A r \in Runs :
        /\ \A i \in Tasks(r) : task[r][i].pc # "done" => run[r].client = "open"
        /\ run[r].client = "closed" => \A i \in Tasks(r) : task[r][i].pc = "done"
        /\ (Ended(r) \/ run[r].pc = "rejected") => run[r].client # "open"
        /\ Ended(r) => run[r].client = "closed"

(* C15 witness: a run has ended with its client closed although one of    *)
(* its tasks failed with an exception                                     *)
C15_Witness ==
    \E r \in Runs :
        /\ Ended(r)
        /\ run[r].client = "closed"
        /\ \E i \in Tasks(r) : task[r][i].res.exc # "" /\ task[r][i].fetches = 1

(* tasks of run r inside async with self.sem *)
NumInSectionOf(r) == Cardinality({i \in Tasks(r) : InSection(r, i)})

(* C19: every slot taken is given back on every way out of the section:   *)
(* the free slots are the configured concurrency less the tasks inside,   *)
(* so with no task inside, and after all runs, the semaphore is back at   *)
(* its initial value                                                      *)
C19_SlotsReleased ==
    /\ sem + NumInSection = cfg.CONCURRENCY
    /\ (\A r \in Runs : \A i \in Tasks(r) : task[r][i].pc \in {"pending", "done"})
          => sem = cfg.CONCURRENCY

(* C19 witness: two runs have ended, one of them by raising after a task  *)
(* ended with an exception inside the section, and every slot is free     *)
C19_Witness ==
    /\ \A r \in Runs : Ended(r)
    /\ \E r \in Runs : \E i \in Tasks(r) : task[r][i].res.exc # ""
    /\ \E r \in Runs : run[r].pc = "responded"
    /\ sem = cfg.CONCURRENCY

(* C20: the tasks inside the section, summed over the runs in flight,     *)
(* never exceed the configured concurrency; a run none of whose tasks is  *)
(* inside finds no free slot only when the other runs hold them all       *)
C20_SharedAcrossRuns ==
    /\ Sum([r \in Runs |-> NumInSectionOf(r)], Runs) <= cfg.CONCURRENCY
    /\ \A r \in Runs :
          (sem = 0 /\ NumInSectionOf(r) = 0) =>
              Sum([q \in Runs |-> IF q = r THEN 0 ELSE NumInSectionOf(q)], Runs)
                  = cfg.CONCURRENCY

(* C20 witness: a task of one run is past its delay and waits for a slot  *)
(* while every slot is held by tasks of the other run                     *)
C20_Witness ==
    \E r \in Runs, q \in Runs :
        /\ r # q
        /\ \E i \in Tasks(r) : task[r][i].pc = "waiting"
        /\ NumInSectionOf(r) = 0
        /\ NumInSectionOf(q) = cfg.CONCURRENCY
        /\ sem = 0

----------------------------------------------------------------------------
(* Properties of DiscoverySpec *)

Returned == x_pc = "returned"

(* the canonical form of the b-th written URL, None when it has none *)
Canonical(b) == Norm[Written[b]]

(* the number of places of the returned sequence that hold u *)
Count(u) == Cardinality({i \in DOMAIN url_list : url_list[i] = u})

(* C9: for every integer max_urls = k, extract_pdf_urls returns a         *)
(* sequence of length exactly min(k, number of distinct canonical URLs    *)
(* discovered), and every returned element is in the discovered set       *)
C9_CapInvariant ==
    Returned => /\ Len(url_list) = Min(max_urls, Cardinality(urls))
                /\ Range(url_list) \subseteq urls

(* C10, as stated: when the same URL occurs two or more times in the      *)
(* document, the returned sequence holds its canonical form at most once  *)
(* and the discovered set holds it (exactly once)                         *)
C10_DedupInvariant ==
    Returned =>
        \A b \in 1..Len(Written) :
            (occ[b].seen >= 2 /\ Canonical(b) # None) =>
                /\ Count(Get(Canonical(b))) <= 1
                /\ Get(Canonical(b)) \in urls

(* C10, amended: when the same URL occurs two or more times, the returned *)
(* sequence holds its canonical form at most once and holds only members  *)
(* of the discovered set; the discovered set holds the canonical form     *)
(* whenever one of the occurrences was read in full, that is on a page    *)
(* part that was read without failure and, in page text, matched by the   *)
(* pattern up to the end of the URL                                       *)
C10_DedupOfReadOccurrences ==
    /\ Range(url_list) \subseteq urls
    /\ \A b \in 1..Len(Written) :
           (occ[b].seen >= 2 /\ Canonical(b) # None) =>
               /\ Count(Get(Canonical(b))) <= 1
               /\ occ[b].read => Get(Canonical(b)) \in urls

(* C10: the URL www.a.io occurred twice, was read, and its canonical form *)
(* was returned next to another URL                                       *)
C10_Witness ==
    /\ Returned
    /\ occ[2].seen >= 2 /\ occ[2].read
    /\ Count(Get(Canonical(2))) = 1
    /\ Len(url_list) >= 2

(* C18: a page's text or links that cannot be read never end              *)
(* extract_pdf_urls and never take a URL out of the set: the call fails   *)
(* only at the opening of the document, the set only grows, and each      *)
(* occurrence in a part that was read is in the set whatever failed on    *)
(* other pages or in the other part of its page                           *)
C18_BestEffortPerPage ==
    [][/\ urls \subseteq urls'
       /\ x_pc' = "raised" => x_pc \in {"open", "raised"}
       /\ x_pc = "raised" => x_pc' = "raised" /\ urls = {}
       /\ \A b \in 1..Len(Written) :
             (occ'[b].read /\ Canonical(b) # None) => Get(Canonical(b)) \in urls'
    ]_vars

(* C18 witness: the call returned the URL www.a.io, read on one part of   *)
(* the document, although the part in which the first URL stood could not *)
(* be read                                                                *)
C18_Witness ==
    /\ Returned
    /\ occ[1].seen >= 1 /\ ~occ[1].read
    /\ occ[2].read
    /\ Get(Canonical(2)) \in Range(url_list)
    /\ Get(Canonical(1)) \notin urls

----------------------------------------------------------------------------
(* Properties of NormalizeSpec *)

(* the parts normalize_url gets from urlsplit for the raw string *)
InputParts(r) == urlsplit(WithScheme(_strip_trailing_punct(Strip(r))))

HttpSchemes == { <<"h", "t", "t", "p">>, <<"h", "t", "t", "p", "s">> }

(* C11: when normalize_url returns a URL u for a raw string,              *)
(* normalize_url(u) returns a string identical to u                       *)
C11_Idempotent ==
    n_pc = "renormalized" => n_renorm = n_norm

(* C12: for two raw strings that differ only in their fragment,           *)
(* normalize_url returns the same result                                  *)
C12_FragmentElision ==
    n_pc \in {"compared", "renormalized"} => n_norm_other = n_norm

(* C13: normalize_url rejects the raw string or returns a URL whose       *)
(* scheme is http or https, whose host is not empty and which has no      *)
(* fragment; a raw string whose scheme (after the www. rule) is not http  *)
(* or https, or whose host is empty, is rejected                          *)
C13_OutputShape ==
    n_pc \in {"normalized", "compared", "renormalized"} =>
        /\ ~IsNone(n_norm) =>
              /\ ~urlsplit(Get(n_norm)).error
              /\ urlsplit(Get(n_norm)).scheme \in HttpSchemes
              /\ Hostname(urlsplit(Get(n_norm)).netloc) # <<>>
              /\ urlsplit(Get(n_norm)).fragment = <<>>
              /\ "#" \notin Range(Get(n_norm))
        /\ ( \/ InputParts(n_raw).error
             \/ InputParts(n_raw).scheme \notin HttpSchemes
             \/ Hostname(InputParts(n_raw).netloc) = <<>> ) => IsNone(n_norm)

(* the same with the whole netloc component read as the host *)
OutputShapeNetloc ==
    n_pc \in {"normalized", "compared", "renormalized"} =>
        /\ ~IsNone(n_norm) =>
              /\ ~urlsplit(Get(n_norm)).error
              /\ urlsplit(Get(n_norm)).scheme \in HttpSchemes
              /\ urlsplit(Get(n_norm)).netloc # <<>>
              /\ urlsplit(Get(n_norm)).fragment = <<>>
              /\ "#" \notin Range(Get(n_norm))
        /\ ( \/ InputParts(n_raw).error
             \/ InputParts(n_raw).scheme \notin HttpSchemes
             \/ InputParts(n_raw).netloc = <<>> ) => IsNone(n_norm)

----------------------------------------------------------------------------
(* Properties of WorkerSpec *)

NoMainContent == Some(Msg("no main content extracted", <<>>))

(* the worker returned the record of an error with message msg *)
ErrorRecord(msg) ==
    /\ w_res.exc = ""
    /\ w_res.item.status = "error"
    /\ w_res.item.error_message = msg
    /\ IsNone(w_res.item.scraped_text)

(* the worker returned the record of a success with the text txt *)
SuccessRecord(txt) ==
    /\ w_res.exc = ""
    /\ w_res.item.status = "success"
    /\ w_res.item.scraped_text = txt

(* the steps of the worker agree with extract_main_text as the tasks of    *)
(* Spec use it                                                             *)
WorkerAgrees ==
    w_pc = "extracted" =>
        w_text = extract_main_text(w_primary, w_secondary, cfg.HAS_READABILITY)

(* C16: the secondary strategy is attempted exactly when the primary      *)
(* raised or yielded nothing and the secondary is available, never when   *)
(* the primary yielded text; when the secondary then yields text the task *)
(* ends in a success with that text; when both fail or the secondary is   *)
(* unavailable extract_main_text returns no text and the task ends in the *)
(* error "no main content extracted"                                      *)
C16_ExtractionFallback ==
    /\ w_pc \in {"extracted", "done"} /\ w_tried # <<>> =>
          /\ Head(w_tried) = "primary"
          /\ ("secondary" \in Range(w_tried))
                <=> (~Yields(w_primary) /\ cfg.HAS_READABILITY)
    /\ w_pc = "done" /\ "secondary" \in Range(w_tried) /\ Yields(w_secondary) =>
          SuccessRecord(Some(Clean(Get(w_secondary.txt))))
    /\ ( /\ w_pc = "done" /\ w_tried # <<>>
         /\ ~Yields(w_primary)
         /\ ~cfg.HAS_READABILITY \/ ~Yields(w_secondary) ) =>
          /\ IsNone(w_text)
          /\ ErrorRecord(NoMainContent)

(* C17: a response with a status below 400 and a content-type that names  *)
(* neither HTML nor XHTML, a missing one included, is a failed fetch with *)
(* the message "unsupported content-type" and the value or "unknown"; no  *)
(* strategy runs on it and the record is an error; a status of 400 or     *)
(* more gives "http <status>" whatever the content-type                   *)
C17_ContentTypeGate ==
    (w_pc = "done" /\ w_resp.kind = "response") =>
        /\ ( /\ w_resp.status < 400
             /\ ~Contains(Lower(w_resp.ctype), "text/html")
             /\ ~Contains(Lower(w_resp.ctype), "application/xhtml+xml") ) =>
              /\ w_tried = <<>>
              /\ ErrorRecord(Some(Msg("unsupported content-type",
                                      IF w_resp.ctype = <<>> THEN <<"unknown">>
                                      ELSE Lower(w_resp.ctype))))
        /\ w_resp.status >= 400 =>
              /\ w_tried = <<>>
              /\ ErrorRecord(Some(Msg("http", <<StatusStr(w_resp.status)>>)))

(* the URLs a record can be built for *)
Recordable == ScrapeItemValid(w_url)

(* the content-type gate for a worker whose URL a record can be built for *)
GateOfRecordable == Recordable => C17_ContentTypeGate

====
